---- MODULE Spec2Model ----
(***************************************************************************)
(* Expense tracker backend: the relational store (trips, expenses), the    *)
(* private receipt bucket, the file handler and the receipt routes.        *)
(*                                                                         *)
(*   server/postgres-storage.ts   PostgresStorage (trips, expenses)        *)
(*   server/supabase-storage.ts   SupabaseStorageService (bucket)          *)
(*   server/file-handler.ts       FileHandler                              *)
(*   server/receipt-routes.ts     GET receipt / POST upload                *)
(*   client/.../receipt-viewer-modal.tsx   the receipt viewer's effect     *)
(***************************************************************************)
EXTENDS Integers, Sequences, FiniteSets, TLC

(* ------------------------------ bounds --------------------------------- *)
NumUsers == 2
MaxTrips == 2
MaxExpenses == 1
MaxRouteTrips == 1
MaxRouteExpenses == 1
MaxTime == 1
MaxReq == 1

Users == 1..NumUsers
TripNames == {"A", "B"}
FileNames == {"r.pdf"}
Reqs == 1..MaxReq

(* ------------------------------ values --------------------------------- *)
\* JavaScript null / undefined for a receipt path, and the "no row" result
\* of a select ... limit(1) that matched nothing (result[0] === undefined).
Null == [user |-> 0, ts |-> 0, name |-> "null"]
NoTrip == [id |-> 0, userId |-> 0, name |-> "", description |-> ""]
NoExpense == [id |-> 0, userId |-> 0, tripName |-> "", cost |-> 0, receiptPath |-> Null]

VARIABLES trips, expenses, nextTripId, nextExpenseId, bucket, now, reqs, last, app,
          users, nextUserId, tx, svc, viewer

vars == <<trips, expenses, nextTripId, nextExpenseId, bucket, now, reqs, last, app, users, nextUserId, tx, svc, viewer>>

(***************************************************************************)
(* PostgresStorage: each method is one SQL statement, deleteTrip is one    *)
(* transaction.  A method's result is a record: threw, err, the rows.      *)
(***************************************************************************)

\* select().from(trips).where(eq(trips.id, id)).limit(1) ; result[0]
getTrip(T, id) ==
    IF \E t \in T : t.id = id THEN CHOOSE t \in T : t.id = id ELSE NoTrip

\* select().from(expenses).where(eq(expenses.id, id)).limit(1) ; result[0]
getExpense(E, id) ==
    IF \E e \in E : e.id = id THEN CHOOSE e \in E : e.id = id ELSE NoExpense

\* insert(trips).values({description: '', ...tripData}).returning()
\* !tripData.name is true of the empty string.
InsertTrip(T, nextId, userId, name) ==
    IF name = ""
    THEN [threw |-> TRUE, err |-> "Trip name is required", trips |-> T, row |-> NoTrip]
    ELSE LET row == [id |-> nextId, userId |-> userId, name |-> name, description |-> ""]
         IN  [threw |-> FALSE, err |-> "", trips |-> T \cup {row}, row |-> row]

\* update(trips).set(tripData).where(eq(trips.id, id)).returning()
\* tripData is a partial record: a function whose domain is the keys given.
SetFields(row, data) ==
    [f \in DOMAIN row |-> IF f \in DOMAIN data THEN data[f] ELSE row[f]]

\* set() of an object without a value is an error before any row is touched.
UpdateAllTripRows(T, id, tripData) ==
    [threw |-> FALSE, err |-> "", trips |-> {SetFields(t, tripData) : t \in T}, row |-> NoTrip]

UpdateTripRows(T, id, tripData) ==
    LET hit == {t \in T : t.id = id}
    IN  IF DOMAIN tripData = {}
        THEN [threw |-> TRUE, err |-> "No values to set", trips |-> T, row |-> NoTrip]
        ELSE IF hit = {}
        THEN [threw |-> TRUE, err |-> "Trip not found", trips |-> T, row |-> NoTrip]
        ELSE LET old == CHOOSE t \in hit : TRUE
                 new == SetFields(old, tripData)
             IN  [threw |-> FALSE, err |-> "", trips |-> (T \ {old}) \cup {new}, row |-> new]

\* tx.delete(expenses).where(and(eq(expenses.userId, trip.userId),
\*                               eq(expenses.tripName, trip.name)))
SkipAssociatedExpenses(E, trip) == E

DeleteByTripNameOnly(E, trip) == {e \in E : e.tripName # trip.name}

DeleteAssociatedExpenses(E, trip) ==
    {e \in E : ~(e.userId = trip.userId /\ e.tripName = trip.name)}

\* tx.delete(trips).where(eq(trips.id, id))
DeleteTripRow(T, id) == {t \in T : t.id # id}

\* The body of the transaction callback: what the transaction has written
\* when the callback returns or throws.  fault names the statement the
\* database fails, if any.
DeleteTripBody(T, E, id, fault) ==
    LET trip == getTrip(T, id)
        E1   == DeleteAssociatedExpenses(E, trip)
    IN  IF trip = NoTrip
        THEN [threw |-> TRUE, err |-> "Trip not found", trips |-> T, expenses |-> E, trip |-> NoTrip]
        ELSE IF fault = "expenseDelete"
        THEN [threw |-> TRUE, err |-> "expense delete failed", trips |-> T, expenses |-> E, trip |-> trip]
        ELSE IF fault = "tripDelete"
        THEN [threw |-> TRUE, err |-> "trip delete failed", trips |-> T, expenses |-> E1, trip |-> trip]
        ELSE [threw |-> FALSE, err |-> "", trips |-> DeleteTripRow(T, id), expenses |-> E1, trip |-> trip]

\* db.transaction(callback): commit what the callback wrote when it returns,
\* roll everything back when it throws; the error is rethrown either way.
CommitAlways(T, E, body) == body

Transaction(T, E, body) ==
    IF body.threw THEN [body EXCEPT !.trips = T, !.expenses = E] ELSE body

DeleteTripTx(T, E, id, fault) == Transaction(T, E, DeleteTripBody(T, E, id, fault))

\* createExpense: the required-field loop, then
\* insert(expenses).values({...expenseData, receiptPath: receiptPath || null})
\* The cost given is stored as it is.
InsertExpense(E, nextId, userId, tripName, receiptPath, cost) ==
    IF tripName = ""
    THEN [threw |-> TRUE, err |-> "Missing required expense field", expenses |-> E, row |-> NoExpense]
    ELSE LET row == [id |-> nextId, userId |-> userId, tripName |-> tripName,
                     cost |-> cost, receiptPath |-> receiptPath]
         IN  [threw |-> FALSE, err |-> "", expenses |-> E \cup {row}, row |-> row]

\* update(expenses).set(dataToUpdate).where(eq(expenses.id, id)).returning()
UpdateExpenseRowsQuietly(E, id, expenseData) ==
    LET hit == {e \in E : e.id = id}
    IN  IF hit = {}
        THEN [threw |-> FALSE, err |-> "", expenses |-> E, row |-> NoExpense]
        ELSE LET old == CHOOSE e \in hit : TRUE
                 new == SetFields(old, expenseData)
             IN  [threw |-> FALSE, err |-> "", expenses |-> (E \ {old}) \cup {new}, row |-> new]

UpdateExpenseRows(E, id, expenseData) ==
    LET hit == {e \in E : e.id = id}
    IN  IF DOMAIN expenseData = {}
        THEN [threw |-> TRUE, err |-> "No values to set", expenses |-> E, row |-> NoExpense]
        ELSE IF hit = {}
        THEN [threw |-> TRUE, err |-> "Expense not found", expenses |-> E, row |-> NoExpense]
        ELSE LET old == CHOOSE e \in hit : TRUE
                 new == SetFields(old, expenseData)
             IN  [threw |-> FALSE, err |-> "", expenses |-> (E \ {old}) \cup {new}, row |-> new]

\* delete(expenses).where(eq(expenses.id, id))
DeleteExpenseRow(E, id) == {e \in E : e.id # id}

(***************************************************************************)
(* SupabaseStorageService: the bucket is the set of keys of its objects.   *)
(* ok says whether the storage service carries the call out; a call it     *)
(* does not carry out returns an error and changes nothing.                *)
(***************************************************************************)
NoUrl == [signedFor |-> Null, expiresIn |-> 0]

\* `user_${userId}/${Date.now()}_${fileName}`
StoragePathOfNobody(userId, t, fileName) == [user |-> 0, ts |-> 0, name |-> fileName]

StoragePath(userId, t, fileName) == [user |-> userId, ts |-> t, name |-> fileName]

\* storage.from(bucket).upload(storagePath, buffer, {upsert: false})
BucketUpload(B, path, ok) ==
    IF ok /\ path \notin B
    THEN [threw |-> FALSE, bucket |-> B \cup {path}]
    ELSE [threw |-> TRUE, bucket |-> B]

\* storage.from(bucket).remove([storagePath])
RemoveNothing(B, path, ok) == [threw |-> ~ok, bucket |-> B]

BucketRemove(B, path, ok) ==
    IF ok
    THEN [threw |-> FALSE, bucket |-> B \ {path}]
    ELSE [threw |-> TRUE, bucket |-> B]

\* storage.from(bucket).createSignedUrl(storagePath, 3600)
SignedUrl(path) == [signedFor |-> path, expiresIn |-> 3600]

(***************************************************************************)
(* Requests.  A request is a record: its inputs (route, session user, id,  *)
(* body, file), the handler's position and locals, and its response.       *)
(* user = 0 is a session that is not authenticated.                        *)
(***************************************************************************)
NewReq(route, user) ==
    [route |-> route, pc |-> "run", user |-> user, param |-> <<>>, id |-> 0,
     body |-> "ok", file |-> "", name |-> "", target |-> 0,
     old |-> Null, del |-> "none", newPath |-> Null, result |-> Null,
     reused |-> FALSE, status |-> 0, err |-> "", url |-> NoUrl,
     looked |-> FALSE, uploads |-> 0, signs |-> 0, sent |-> 0, fields |-> {},
     handed |-> FALSE, database |-> "", local |-> "none"]

Idle == [NewReq("none", 0) EXCEPT !.pc = "idle"]

Free(r) == reqs[r].pc \in {"idle", "done"}

\* The handler's locals go out of scope when the response is sent; what is
\* left of the request is what it was given to decide on and what it answered.
Finished(rec) ==
    [rec EXCEPT !.pc = "done", !.param = <<>>, !.id = 0, !.file = "", !.name = "",
                !.old = Null, !.newPath = Null,
                !.result = IF rec.route = "postUpload" THEN @ ELSE Null]

\* The field names of the JSON body a route handler sends: {message} with
\* every status from 400 on, {url} and {message, receiptPath} with the 200
\* of the receipt routes.
HandlerBody(route, status) ==
    IF status >= 400 THEN {"message"}
    ELSE IF route = "getReceipt" THEN {"url"}
    ELSE IF route = "postUpload" THEN {"message", "receiptPath"}
    ELSE {}

\* res.status(status).json(...)
Respond(rec, status) ==
    [Finished(rec) EXCEPT !.status = status, !.sent = @ + 1,
                          !.fields = HandlerBody(rec.route, status)]

\* The error middleware: status = err.status || err.statusCode || 500.
\* errStatus is 0 for an Error that carries no status.
ErrorMiddlewareNoDefault(rec, errStatus, what) ==
    [Finished(rec) EXCEPT !.err = what, !.sent = @ + 1, !.fields = {"message"},
                          !.status = errStatus]

ErrorMiddleware(rec, errStatus, what) ==
    [Finished(rec) EXCEPT !.err = what, !.sent = @ + 1, !.fields = {"message"},
                          !.status = IF errStatus # 0 THEN errStatus ELSE 500]

\* app.use(express.json()): a malformed JSON body is an error with status 400.
JsonParserError(body) == IF body = "badJson" THEN 400 ELSE 0

\* express.raw({type: 'multipart/form-data', limit: '10mb'}): a multipart
\* body over the limit is an error with status 413.
RawParserError(body) == IF body = "tooLarge" THEN 413 ELSE 0

\* req.isAuthenticated()
AnyoneAuthenticated(rec) == TRUE

IsAuthenticated(rec) == rec.user # 0

\* parseInt(req.params.id): the leading decimal digits, NaN when there are none.
NaN == -1
DigitChars == <<"0", "1", "2", "3", "4", "5", "6", "7", "8", "9">>
IsDigit(c) == \E i \in 1..10 : DigitChars[i] = c
DigitVal(c) == (CHOOSE i \in 1..10 : DigitChars[i] = c) - 1

RECURSIVE ParseDigits(_, _, _)
ParseDigits(s, acc, seen) ==
    IF s = <<>> \/ ~IsDigit(Head(s))
    THEN IF seen THEN acc ELSE NaN
    ELSE ParseDigits(Tail(s), acc * 10 + DigitVal(Head(s)), TRUE)

ParseInt(s) == ParseDigits(s, 0, FALSE)

Params == {<<"1">>, <<"2">>, <<"x">>, <<"1", "x">>}

(***************************************************************************)
(* FileHandler                                                             *)
(***************************************************************************)
\* FileHandler.uploadFile up to its await: null without a file or a user,
\* otherwise the local file at req.file.path is read, the key is computed
\* and the upload is sent.  local is the state of that local file.
UploadFileBegin(rec, t) ==
    IF rec.file = "" \/ rec.user = 0
    THEN [rec EXCEPT !.pc = "uploaded", !.result = Null]
    ELSE [rec EXCEPT !.pc = "upload", !.uploads = @ + 1, !.local = "exists",
                     !.newPath = StoragePath(rec.user, t, rec.file)]

\* handleExpenseFileUpload up to its first await.
UploadWithoutDelete(rec, oldReceiptPath, t) ==
    IF rec.file = ""
    THEN [rec EXCEPT !.pc = "persist", !.old = oldReceiptPath, !.result = oldReceiptPath]
    ELSE UploadFileBegin([rec EXCEPT !.old = oldReceiptPath], t)

ForgetOldPath(rec, oldReceiptPath, t) ==
    IF rec.file = ""
    THEN [rec EXCEPT !.pc = "persist", !.old = oldReceiptPath, !.result = Null]
    ELSE IF oldReceiptPath # Null
    THEN [rec EXCEPT !.pc = "deleteOld", !.old = oldReceiptPath]
    ELSE UploadFileBegin([rec EXCEPT !.old = oldReceiptPath], t)

HandleExpenseFileUploadBegin(rec, oldReceiptPath, t) ==
    IF rec.file = ""
    THEN [rec EXCEPT !.pc = "persist", !.old = oldReceiptPath, !.result = oldReceiptPath]
    ELSE IF oldReceiptPath # Null
    THEN [rec EXCEPT !.pc = "deleteOld", !.old = oldReceiptPath]
    ELSE UploadFileBegin([rec EXCEPT !.old = oldReceiptPath], t)

\* FileHandler.deleteFile(old).catch(warn): what follows the delete.
RethrowDeleteError(rec, threw, t) ==
    IF threw
    THEN ErrorMiddleware([rec EXCEPT !.del = "failed"], 0, "delete")
    ELSE UploadFileBegin([rec EXCEPT !.del = "ok"], t)

AfterDeleteOld(rec, threw, t) ==
    UploadFileBegin([rec EXCEPT !.del = IF threw THEN "failed" ELSE "ok"], t)

\* What uploadFile returns once the upload has succeeded.
UploadFileResult(rec) == rec.newPath

\* fs.unlinkSync(localFilePath), the statement after the awaited upload.
UnlinkLocal(rec) == [rec EXCEPT !.local = "deleted"]

(***************************************************************************)
(* receipt-routes.ts                                                       *)
(***************************************************************************)
\* The checks on the looked-up expense: the status to answer, 0 to go on.
ReceiptChecksNoOwner(expense, user) ==
    IF expense = NoExpense THEN 404
    ELSE IF expense.receiptPath = Null THEN 404
    ELSE 0

ReceiptChecks(expense, user) ==
    IF expense = NoExpense THEN 404
    ELSE IF expense.userId # user THEN 403
    ELSE IF expense.receiptPath = Null THEN 404
    ELSE 0

ReqFrame == UNCHANGED <<trips, expenses, nextTripId, nextExpenseId, bucket, now, last, app, users, nextUserId, tx, svc, viewer>>

\* GET /api/expenses/receipt/:id, up to the await of storage.getExpense
GetReceiptBegin(rec) ==
    LET expenseId == ParseInt(rec.param)
    IN  IF JsonParserError(rec.body) # 0
        THEN ErrorMiddleware(rec, JsonParserError(rec.body), "body")
        ELSE IF ~IsAuthenticated(rec) THEN Respond(rec, 401)
        ELSE IF expenseId = NaN THEN Respond(rec, 400)
        ELSE [rec EXCEPT !.pc = "getExpense", !.id = expenseId, !.looked = TRUE]

GetReceipt(r, user, param, body) ==
    /\ Free(r)
    /\ LET rec == [NewReq("getReceipt", user) EXCEPT !.param = param, !.body = body]
       IN  reqs' = [reqs EXCEPT ![r] = GetReceiptBegin(rec)]
    /\ ReqFrame

\* storage.getExpense resolves or rejects; then the checks, up to the await
\* of FileHandler.getFileUrl
GetReceiptLookup(r, dbOk) ==
    /\ reqs[r].route = "getReceipt" /\ reqs[r].pc = "getExpense"
    /\ LET rec == reqs[r]
           expense == getExpense(expenses, rec.id)
           status == ReceiptChecks(expense, rec.user)
       IN  reqs' = [reqs EXCEPT ![r] =
               IF ~dbOk THEN ErrorMiddleware(rec, 0, "db")
               ELSE IF status # 0 THEN Respond(rec, status)
               ELSE [rec EXCEPT !.pc = "getFileUrl", !.target = expense.userId,
                                !.old = expense.receiptPath, !.signs = @ + 1]]
    /\ ReqFrame

\* createSignedUrl resolves; res.json({url}) or next(error)
GetReceiptSign(r, ok) ==
    /\ reqs[r].route = "getReceipt" /\ reqs[r].pc = "getFileUrl"
    /\ LET rec == reqs[r]
       IN  reqs' = [reqs EXCEPT ![r] =
               IF ~ok THEN ErrorMiddleware(rec, 0, "sign")
               ELSE Respond([rec EXCEPT !.url = SignedUrl(rec.old)], 200)]
    /\ ReqFrame

\* POST /api/expenses/upload, up to the await of the upload
PostUpload(r, user, file, body) ==
    /\ Free(r)
    /\ LET rec == [NewReq("postUpload", user) EXCEPT !.file = file, !.body = body]
           begun == UploadFileBegin(rec, now)
       IN  reqs' = [reqs EXCEPT ![r] =
               IF JsonParserError(body) # 0
               THEN ErrorMiddleware(rec, JsonParserError(body), "body")
               ELSE IF RawParserError(body) # 0
               THEN ErrorMiddleware(rec, RawParserError(body), "body")
               ELSE IF ~IsAuthenticated(rec) THEN Respond(rec, 401)
               ELSE IF file = "" THEN Respond(rec, 400)
               ELSE IF begun.pc = "uploaded" THEN Respond(begun, 500)
               ELSE begun]
    /\ ReqFrame

(***************************************************************************)
(* The trip and expense routes (server/routes.ts): authenticate, look the  *)
(* resource up, check that the session user owns it, then call the store.  *)
(* The expense routes pass the uploaded file through                       *)
(* FileHandler.handleExpenseFileUpload and persist the path it returns.    *)
(***************************************************************************)
TripRoutes == {"updateTrip", "deleteTrip", "getTrip"}
ExpenseRoutes == {"updateExpense", "deleteExpense", "getExpense"}

\* The status to answer for a looked-up row, 0 to go on.
OwnerChecks(row, none, user) ==
    IF row = none THEN 404
    ELSE IF row.userId # user THEN 403
    ELSE 0

\* POST /api/trips
PostTrip(r, user, name) ==
    /\ Free(r)
    /\ nextTripId <= MaxRouteTrips
    /\ LET rec == [NewReq("createTrip", user) EXCEPT !.name = name]
       IN  reqs' = [reqs EXCEPT ![r] =
               IF ~IsAuthenticated(rec) THEN Respond(rec, 401)
               ELSE [rec EXCEPT !.pc = "insertTrip"]]
    /\ ReqFrame

PostTripInsert(r) ==
    /\ reqs[r].pc = "insertTrip"
    /\ nextTripId <= MaxRouteTrips
    /\ LET rec == reqs[r]
           res == InsertTrip(trips, nextTripId, rec.user, rec.name)
       IN  /\ trips' = res.trips
           /\ nextTripId' = IF res.threw THEN nextTripId ELSE nextTripId + 1
           /\ reqs' = [reqs EXCEPT ![r] =
                  IF res.threw THEN ErrorMiddleware(rec, 0, "db")
                  ELSE Respond([rec EXCEPT !.id = res.row.id, !.target = rec.user], 201)]
    /\ UNCHANGED <<expenses, nextExpenseId, bucket, now, last, app, users, nextUserId, tx, svc, viewer>>

\* GET, PUT, DELETE /api/trips/:id, up to the await of storage.getTrip
TripById(r, route, user, id, name) ==
    /\ Free(r)
    /\ LET rec == [NewReq(route, user) EXCEPT !.id = id, !.name = name]
       IN  reqs' = [reqs EXCEPT ![r] =
               IF ~IsAuthenticated(rec) THEN Respond(rec, 401)
               ELSE [rec EXCEPT !.pc = "getTrip", !.looked = TRUE]]
    /\ ReqFrame

TripLookup(r) ==
    /\ reqs[r].pc = "getTrip"
    /\ LET rec == reqs[r]
           trip == getTrip(trips, rec.id)
           status == OwnerChecks(trip, NoTrip, rec.user)
       IN  reqs' = [reqs EXCEPT ![r] =
               IF status # 0 THEN Respond(rec, status)
               ELSE IF rec.route = "getTrip"
               THEN Respond([rec EXCEPT !.target = trip.userId], 200)
               ELSE [rec EXCEPT !.pc = "writeTrip", !.target = trip.userId]]
    /\ ReqFrame

TripWrite(r, fault) ==
    /\ reqs[r].pc = "writeTrip"
    /\ LET rec == reqs[r]
           upd == UpdateTripRows(trips, rec.id, [name |-> rec.name])
           del == DeleteTripTx(trips, expenses, rec.id, fault)
       IN  IF rec.route = "updateTrip"
           THEN /\ fault = "none"
                /\ trips' = upd.trips
                /\ expenses' = expenses
                /\ reqs' = [reqs EXCEPT ![r] =
                       IF upd.threw THEN ErrorMiddleware(rec, 0, "db") ELSE Respond(rec, 200)]
           ELSE /\ trips' = del.trips
                /\ expenses' = del.expenses
                /\ reqs' = [reqs EXCEPT ![r] =
                       IF del.threw THEN ErrorMiddleware(rec, 0, "db") ELSE Respond(rec, 200)]
    /\ UNCHANGED <<nextTripId, nextExpenseId, bucket, now, last, app, users, nextUserId, tx, svc, viewer>>

\* POST /api/expenses, up to the first await of handleExpenseFileUpload
PostExpense(r, user, tripName, file) ==
    /\ Free(r)
    /\ nextExpenseId <= MaxRouteExpenses
    /\ LET rec == [NewReq("createExpense", user) EXCEPT !.name = tripName, !.file = file]
       IN  reqs' = [reqs EXCEPT ![r] =
               IF ~IsAuthenticated(rec) THEN Respond(rec, 401)
               ELSE HandleExpenseFileUploadBegin(rec, Null, now)]
    /\ ReqFrame

\* GET, PUT, DELETE /api/expenses/:id, up to the await of storage.getExpense
ExpenseById(r, route, user, id, tripName, file) ==
    /\ Free(r)
    /\ route # "updateExpense" => (file = "" /\ tripName = "")
    /\ LET rec == [NewReq(route, user) EXCEPT !.id = id, !.name = tripName, !.file = file]
       IN  reqs' = [reqs EXCEPT ![r] =
               IF ~IsAuthenticated(rec) THEN Respond(rec, 401)
               ELSE [rec EXCEPT !.pc = "getExpense", !.looked = TRUE]]
    /\ ReqFrame

ExpenseLookup(r) ==
    /\ reqs[r].route \in ExpenseRoutes /\ reqs[r].pc = "getExpense"
    /\ LET rec == reqs[r]
           expense == getExpense(expenses, rec.id)
           status == OwnerChecks(expense, NoExpense, rec.user)
           own == [rec EXCEPT !.target = expense.userId]
       IN  reqs' = [reqs EXCEPT ![r] =
               IF status # 0 THEN Respond(rec, status)
               ELSE IF rec.route = "getExpense" THEN Respond(own, 200)
               ELSE IF rec.route = "deleteExpense" THEN [own EXCEPT !.pc = "persist"]
               ELSE HandleExpenseFileUploadBegin(own, expense.receiptPath, now)]
    /\ ReqFrame

\* handleExpenseFileUpload: the delete of the old object resolves or rejects;
\* the rejection is caught and logged, and uploadFile is called.
DeleteOld(r, ok) ==
    /\ reqs[r].pc = "deleteOld"
    /\ LET rec == reqs[r]
           res == BucketRemove(bucket, rec.old, ok)
       IN  /\ bucket' = res.bucket
           /\ reqs' = [reqs EXCEPT ![r] = AfterDeleteOld(rec, res.threw, now)]
    /\ UNCHANGED <<trips, expenses, nextTripId, nextExpenseId, now, last, app, users, nextUserId, tx, svc, viewer>>

\* The upload resolves or rejects: uploadFile returns the key or throws, and
\* its caller (POST upload, or handleExpenseFileUpload in an expense route)
\* goes on.  A request that has deleted its old object and waits for its own
\* upload notes when an upload stores an object under the old key again.
Upload(r, ok) ==
    /\ reqs[r].pc = "upload"
    /\ LET rec == reqs[r]
           res == BucketUpload(bucket, rec.newPath, ok)
           got == [UnlinkLocal(rec) EXCEPT !.result = UploadFileResult(rec)]
           me  == IF res.threw THEN ErrorMiddleware(rec, 0, "upload")
                  ELSE IF rec.route = "postUpload" THEN Respond(got, 200)
                  ELSE [got EXCEPT !.pc = "persist"]
           Note(q, x) == IF /\ ~res.threw
                            /\ reqs[q].pc = "upload"
                            /\ reqs[q].del = "ok"
                            /\ reqs[q].old = rec.newPath
                         THEN [x EXCEPT !.reused = TRUE] ELSE x
       IN  /\ bucket' = res.bucket
           /\ reqs' = [q \in Reqs |-> Note(q, IF q = r THEN me ELSE reqs[q])]
    /\ UNCHANGED <<trips, expenses, nextTripId, nextExpenseId, now, last, app, users, nextUserId, tx, svc, viewer>>

\* The store call of an expense route resolves or rejects.
Persist(r) ==
    /\ reqs[r].pc = "persist"
    /\ LET rec == reqs[r]
           ins == InsertExpense(expenses, nextExpenseId, rec.user, rec.name, rec.result, 0)
           upd == UpdateExpenseRows(expenses, rec.id,
                     IF rec.name = "" THEN [receiptPath |-> rec.result]
                     ELSE [tripName |-> rec.name, receiptPath |-> rec.result])
       IN  CASE rec.route = "createExpense" ->
                  /\ nextExpenseId <= MaxRouteExpenses
                  /\ expenses' = ins.expenses
                  /\ nextExpenseId' = IF ins.threw THEN nextExpenseId ELSE nextExpenseId + 1
                  /\ reqs' = [reqs EXCEPT ![r] =
                         IF ins.threw THEN ErrorMiddleware(rec, 0, "db")
                         ELSE Respond([rec EXCEPT !.id = ins.row.id, !.target = rec.user], 201)]
             [] rec.route = "updateExpense" ->
                  /\ expenses' = upd.expenses
                  /\ nextExpenseId' = nextExpenseId
                  /\ reqs' = [reqs EXCEPT ![r] =
                         IF upd.threw THEN ErrorMiddleware(rec, 0, "db") ELSE Respond(rec, 200)]
             [] rec.route = "deleteExpense" ->
                  /\ expenses' = DeleteExpenseRow(expenses, rec.id)
                  /\ nextExpenseId' = nextExpenseId
                  /\ reqs' = [reqs EXCEPT ![r] = Respond(rec, 200)]
    /\ UNCHANGED <<trips, nextTripId, bucket, now, last, app, users, nextUserId, tx, svc, viewer>>

\* Date.now() advances.
Tick ==
    /\ now < MaxTime
    /\ now' = now + 1
    /\ UNCHANGED <<trips, expenses, nextTripId, nextExpenseId, bucket, reqs, last, app, users, nextUserId, tx, svc, viewer>>

(***************************************************************************)
(* The entry points (server/index.ts, api/index.js, api/status.js).  app   *)
(* is the state of the module: the storage promise, whether the connection *)
(* test of PostgresStorage.initialize succeeded, the steps appPromise has  *)
(* completed, in the order it completed them, and appPromise itself.       *)
(***************************************************************************)
Entries == {"server", "api"}

AppStart(entry) ==
    [entry |-> entry, storage |-> "pending", dbUp |-> FALSE, steps |-> <<>>,
     promise |-> "pending"]

AppFrame ==
    UNCHANGED <<trips, expenses, nextTripId, nextExpenseId, bucket, now, reqs, last,
                users, nextUserId, tx, svc, viewer>>

\* PostgresStorage.initialize: the constructor throws without DATABASE_URL;
\* a failed connection test is caught and logged, and the instance returned.
InitializeResult(a, urlSet, reachable) ==
    [a EXCEPT !.storage = IF urlSet THEN "resolved" ELSE "rejected",
              !.dbUp = urlSet /\ reachable]

Initialize(urlSet, reachable) ==
    /\ app.storage = "pending"
    /\ app' = InitializeResult(app, urlSet, reachable)
    /\ AppFrame

\* A step of appPromise completes, or throws and rejects appPromise.
Step(a, name, ok) ==
    IF ok THEN [a EXCEPT !.steps = Append(@, name)] ELSE [a EXCEPT !.promise = "rejected"]

\* const storage = await storagePromise
AwaitStorage ==
    /\ app.promise = "pending" /\ app.steps = <<>> /\ app.storage # "pending"
    /\ app' = Step(app, "storage", app.storage = "resolved")
    /\ AppFrame

\* setupAuth(app, storage.sessionStore, storage)
SetupAuth(ok) ==
    /\ app.promise = "pending" /\ app.steps = <<"storage">>
    /\ app' = Step(app, "auth", ok)
    /\ AppFrame

\* const server = await registerRoutes(app, storage)
RegisterRoutes(ok) ==
    /\ app.promise = "pending" /\ app.steps = <<"storage", "auth">>
    /\ app' = Step(app, "routes", ok)
    /\ AppFrame

\* app.use((err, req, res, next) => ...)
UseErrorMiddleware ==
    /\ app.promise = "pending" /\ app.steps = <<"storage", "auth", "routes">>
    /\ app' = Step(app, "errors", TRUE)
    /\ AppFrame

\* What follows the error middleware, then return app: the 404 handler in
\* api/index.js; setupVite or serveStatic, which can throw, in server/index.ts.
FinishInit(ok) ==
    /\ app.promise = "pending" /\ app.steps = <<"storage", "auth", "routes", "errors">>
    /\ app.entry = "api" => ok
    /\ LET done == Step(app, IF app.entry = "api" THEN "notFound" ELSE "static", ok)
       IN  app' = IF ok THEN [done EXCEPT !.promise = "resolved"] ELSE done
    /\ AppFrame

\* The serverless handler is invoked and awaits appPromise.
AppRoutes == {"getReceipt", "unknown"}

Invoke(r, route, user, param) ==
    /\ Free(r)
    /\ route = "unknown" => param = <<>>
    /\ reqs' = [reqs EXCEPT ![r] =
           [NewReq(route, user) EXCEPT !.pc = "awaitApp", !.param = param]]
    /\ ReqFrame

\* const initializedApp = await appPromise: the handler goes on once the
\* promise is settled.
NoAwait(a) == TRUE

AppSettled(a) == a.promise # "pending"

\* setupNotFoundHandler's middleware: no route matched the request.
NotFoundHandler(rec) ==
    [Finished(rec) EXCEPT !.status = 404, !.sent = @ + 1,
                          !.fields = {"error", "message", "code"}]

\* serveStatic: what no route matched is answered with a file of the client.
ServeStatic(rec) ==
    [Finished(rec) EXCEPT !.status = 200, !.sent = @ + 1]

\* The catch of the serverless handler:
\* res.status(500).json({message: "Internal Server Error", details})
InitFailed(rec) ==
    [Finished(rec) EXCEPT !.status = 500, !.sent = @ + 1,
                          !.err = "Internal Server Error",
                          !.fields = {"message", "details"}]

\* initializedApp(req, res): Express runs the handler of the matching route.
HandToExpress(rec, entry) ==
    LET got == [rec EXCEPT !.handed = TRUE]
    IN  IF rec.route = "getReceipt" THEN GetReceiptBegin(got)
        ELSE IF entry = "api" THEN NotFoundHandler(got)
        ELSE ServeStatic(got)

Dispatch(r) ==
    /\ reqs[r].pc = "awaitApp"
    /\ AppSettled(app)
    /\ reqs' = [reqs EXCEPT ![r] =
           IF app.promise = "rejected" THEN InitFailed(reqs[r])
           ELSE HandToExpress(reqs[r], app.entry)]
    /\ ReqFrame

\* api/status.js: await storagePromise, then 200 "connected"; 500 "error"
\* in the catch.
StatusResponse(rec, storage) ==
    IF storage = "resolved"
    THEN [Finished(rec) EXCEPT !.status = 200, !.sent = @ + 1, !.database = "connected",
              !.fields = {"status", "timestamp", "environment", "database", "message"}]
    ELSE [Finished(rec) EXCEPT !.status = 500, !.sent = @ + 1, !.database = "error",
              !.err = "Failed to connect to database",
              !.fields = {"status", "timestamp", "environment", "database", "message",
                          "error"}]

Status(r) ==
    /\ Free(r)
    /\ app.storage # "pending"
    /\ reqs' = [reqs EXCEPT ![r] = StatusResponse(NewReq("status", 0), app.storage)]
    /\ ReqFrame

(***************************************************************************)
(* The store called directly (SpecDb): one action per PostgresStorage      *)
(* method.  last tells how the deleteTrip that has just returned ended.     *)
(***************************************************************************)
Faults == {"none", "expenseDelete", "tripDelete"}

\* The storage service's buckets and the module instances (one per server
\* process) that initialise the storage singleton, before any of them has
\* run: the bucket of the receipts is there already or it is not.
bucketName == "expense-receipts"
NumInstances == 3
Instances == 1..NumInstances
NotStarted == [pc |-> "start", bucketExists |-> FALSE, called |-> FALSE, created |-> FALSE]

ServiceStart(present) ==
    [buckets |-> IF present THEN {[name |-> bucketName, public |-> FALSE]} ELSE {},
     inst |-> [i \in Instances |-> NotStarted]]

\* The receipt viewer of the client when it is mounted: nothing selected,
\* nothing shown, no fetch in flight.
NoUrlShown == [kind |-> "none", id |-> 0, given |-> <<>>]

ViewerStart ==
    [initialUrl |-> <<>>, currentReceiptUrl |-> NoUrlShown, loading |-> FALSE,
     error |-> FALSE, fetches |-> {}, nextFetch |-> 1]

\* No deleteTrip transaction is open.
NoTx == [pc |-> "idle", id |-> 0, trip |-> NoTrip, deleted |-> {}, outcome |-> "ok"]

NoCall == [op |-> "none", fault |-> "none", outcome |-> "ok", cascaded |-> FALSE]

Outcome(r) == IF r.threw THEN "error" ELSE "ok"

DbFrame == UNCHANGED <<bucket, now, reqs, app, users, nextUserId, tx, svc, viewer>>

createTrip(userId, name) ==
    /\ nextTripId <= MaxTrips
    /\ LET r == InsertTrip(trips, nextTripId, userId, name)
       IN  /\ trips' = r.trips
           /\ nextTripId' = IF r.threw THEN nextTripId ELSE nextTripId + 1
    /\ last' = NoCall
    /\ UNCHANGED <<expenses, nextExpenseId>>
    /\ DbFrame

updateTrip(id, tripData) ==
    /\ trips' = UpdateTripRows(trips, id, tripData).trips
    /\ last' = NoCall
    /\ UNCHANGED <<expenses, nextTripId, nextExpenseId>>
    /\ DbFrame

\* cascaded: the transaction had deleted an expense when it ended.
deleteTrip(id, fault) ==
    /\ LET body == DeleteTripBody(trips, expenses, id, fault)
           r == DeleteTripTx(trips, expenses, id, fault)
       IN  /\ trips' = r.trips
           /\ expenses' = r.expenses
           /\ last' = [op |-> "deleteTrip", fault |-> fault, outcome |-> Outcome(r),
                       cascaded |-> body.expenses # expenses]
    /\ UNCHANGED <<nextTripId, nextExpenseId>>
    /\ DbFrame

createExpense(userId, tripName, cost) ==
    /\ nextExpenseId <= MaxExpenses
    /\ LET r == InsertExpense(expenses, nextExpenseId, userId, tripName, Null, cost)
       IN  /\ expenses' = r.expenses
           /\ nextExpenseId' = IF r.threw THEN nextExpenseId ELSE nextExpenseId + 1
    /\ last' = NoCall
    /\ UNCHANGED <<trips, nextTripId>>
    /\ DbFrame

updateExpense(id, expenseData) ==
    /\ expenses' = UpdateExpenseRows(expenses, id, expenseData).expenses
    /\ last' = NoCall
    /\ UNCHANGED <<trips, nextTripId, nextExpenseId>>
    /\ DbFrame

deleteExpense(id) ==
    /\ expenses' = DeleteExpenseRow(expenses, id)
    /\ last' = NoCall
    /\ UNCHANGED <<trips, nextTripId, nextExpenseId>>
    /\ DbFrame

Init ==
    /\ trips = {}
    /\ expenses = {}
    /\ nextTripId = 1
    /\ nextExpenseId = 1
    /\ bucket = {}
    /\ now = 0
    /\ reqs = [r \in Reqs |-> Idle]
    /\ last = NoCall
    /\ app = AppStart("server")
    /\ users = {}
    /\ nextUserId = 1
    /\ tx = NoTx
    /\ svc = ServiceStart(TRUE)
    /\ viewer = ViewerStart

TripIds == 1..(MaxTrips + 1)
ExpenseIds == 1..(MaxExpenses + 1)

NextDb ==
    \/ \E u \in Users, n \in TripNames \cup {""} : createTrip(u, n)
    \/ \E id \in TripIds, n \in TripNames : updateTrip(id, [name |-> n])
    \/ \E id \in TripIds, f \in Faults : deleteTrip(id, f)
    \/ \E u \in Users, n \in TripNames \cup {""} : createExpense(u, n, 0)
    \/ \E id \in ExpenseIds, n \in TripNames : updateExpense(id, [tripName |-> n])
    \/ \E id \in ExpenseIds : deleteExpense(id)

SpecDb == Init /\ [][NextDb]_vars

RouteTripIds == 1..(MaxRouteTrips + 1)
RouteExpenseIds == 1..(MaxRouteExpenses + 1)
ReceiptBodies == {"ok", "badJson"}
UploadBodies == {"ok", "badJson", "tooLarge"}

\* The receipt flow: the receipt routes and the expense routes, which
\* create, replace and drop receipts.
Next ==
    \/ \E r \in Reqs, u \in 0..NumUsers, p \in Params, b \in ReceiptBodies :
          GetReceipt(r, u, p, b)
    \/ \E r \in Reqs, dbOk \in BOOLEAN : GetReceiptLookup(r, dbOk)
    \/ \E r \in Reqs, ok \in BOOLEAN : GetReceiptSign(r, ok)
    \/ \E r \in Reqs, u \in 0..NumUsers, f \in FileNames \cup {""}, b \in UploadBodies :
          PostUpload(r, u, f, b)
    \/ \E r \in Reqs, u \in 0..NumUsers, n \in TripNames, f \in FileNames \cup {""} :
          PostExpense(r, u, n, f)
    \/ \E r \in Reqs, rt \in ExpenseRoutes, u \in 0..NumUsers, id \in RouteExpenseIds,
          n \in TripNames \cup {""}, f \in FileNames \cup {""} :
          ExpenseById(r, rt, u, id, n, f)
    \/ \E r \in Reqs : ExpenseLookup(r)
    \/ \E r \in Reqs, ok \in BOOLEAN : DeleteOld(r, ok)
    \/ \E r \in Reqs, ok \in BOOLEAN : Upload(r, ok)
    \/ \E r \in Reqs : Persist(r)
    \/ Tick

Spec == Init /\ [][Next]_vars

\* Every route that reads, changes or removes a trip or an expense.
NextAccess ==
    \/ \E r \in Reqs, u \in 0..NumUsers, p \in Params, b \in ReceiptBodies :
          GetReceipt(r, u, p, b)
    \/ \E r \in Reqs, dbOk \in BOOLEAN : GetReceiptLookup(r, dbOk)
    \/ \E r \in Reqs, ok \in BOOLEAN : GetReceiptSign(r, ok)
    \/ \E r \in Reqs, u \in 0..NumUsers, n \in TripNames : PostTrip(r, u, n)
    \/ \E r \in Reqs : PostTripInsert(r)
    \/ \E r \in Reqs, u \in 0..NumUsers, id \in RouteTripIds :
          \/ TripById(r, "getTrip", u, id, "")
          \/ TripById(r, "deleteTrip", u, id, "")
          \/ \E n \in TripNames : TripById(r, "updateTrip", u, id, n)
    \/ \E r \in Reqs : TripLookup(r)
    \/ \E r \in Reqs, f \in Faults : TripWrite(r, f)
    \/ \E r \in Reqs, u \in 0..NumUsers, n \in TripNames, f \in FileNames \cup {""} :
          PostExpense(r, u, n, f)
    \/ \E r \in Reqs, rt \in ExpenseRoutes, u \in 0..NumUsers, id \in RouteExpenseIds,
          n \in TripNames \cup {""}, f \in FileNames \cup {""} :
          ExpenseById(r, rt, u, id, n, f)
    \/ \E r \in Reqs : ExpenseLookup(r)
    \/ \E r \in Reqs, ok \in BOOLEAN : DeleteOld(r, ok)
    \/ \E r \in Reqs, ok \in BOOLEAN : Upload(r, ok)
    \/ \E r \in Reqs : Persist(r)

SpecAccess == Init /\ [][NextAccess]_vars

\* The module of either entry point is loaded and serves requests: the
\* initialisation, the serverless handler, the status endpoint, and the
\* receipt route as the route a request is handed to.
InitApp ==
    /\ trips = {}
    /\ expenses = {}
    /\ nextTripId = 1
    /\ nextExpenseId = 1
    /\ bucket = {}
    /\ now = 0
    /\ reqs = [r \in Reqs |-> Idle]
    /\ last = NoCall
    /\ \E e \in Entries : app = AppStart(e)
    /\ users = {}
    /\ nextUserId = 1
    /\ tx = NoTx
    /\ svc = ServiceStart(TRUE)
    /\ viewer = ViewerStart

NextApp ==
    \/ \E urlSet \in BOOLEAN, reachable \in BOOLEAN : Initialize(urlSet, reachable)
    \/ AwaitStorage
    \/ \E ok \in BOOLEAN : SetupAuth(ok)
    \/ \E ok \in BOOLEAN : RegisterRoutes(ok)
    \/ UseErrorMiddleware
    \/ \E ok \in BOOLEAN : FinishInit(ok)
    \/ \E r \in Reqs, rt \in AppRoutes, u \in 0..NumUsers, p \in Params \cup {<<>>} :
          Invoke(r, rt, u, p)
    \/ \E r \in Reqs : Dispatch(r)
    \/ \E r \in Reqs : Status(r)
    \/ \E r \in Reqs, dbOk \in BOOLEAN : GetReceiptLookup(r, dbOk)

SpecApp == InitApp /\ [][NextApp]_vars

(***************************************************************************)
(* Claims on deleteTrip, checked under SpecDb.                             *)
(***************************************************************************)

SameTrip(e, trip) == e.userId = trip.userId /\ e.tripName = trip.name

\* C1: after deleteTrip(id) has succeeded on an existing trip, no trip row
\* has that id and no expense row has the deleted trip's userId and name.
C1_CascadeDelete ==
    [][(last'.op = "deleteTrip" /\ last'.outcome = "ok") =>
          \A id \in TripIds : deleteTrip(id, "none") =>
              /\ getTrip(trips, id) # NoTrip
              /\ \A t \in trips' : t.id # id
              /\ \A e \in expenses' : ~SameTrip(e, getTrip(trips, id))]_vars

\* C1 witness: a deleteTrip has succeeded and its cascade removed an expense.
C1_Witness ==
    /\ last.op = "deleteTrip" /\ last.outcome = "ok" /\ last.cascaded
    /\ expenses = {}

\* C2 as stated: a successful deleteTrip(id) leaves unchanged every other
\* trip row and every expense that belongs to another trip row, whatever
\* that row's name.
C2_OnlyOwnExpensesAsStated ==
    [][(last'.op = "deleteTrip" /\ last'.outcome = "ok") =>
          \A id \in TripIds : deleteTrip(id, "none") =>
              /\ \A t \in trips : t.id # id => t \in trips'
              /\ \A e \in expenses :
                    (\E t \in trips : t.id # id /\ SameTrip(e, t)) => e \in expenses']_vars

\* C2 amended: a successful deleteTrip(id) removes the trip row with that id
\* and exactly the expenses whose (userId, tripName) is the deleted row's
\* (userId, name); every other trip row and every other expense is unchanged.
C2_OnlyMatchingExpenses ==
    [][(last'.op = "deleteTrip" /\ last'.outcome = "ok") =>
          \A id \in TripIds : deleteTrip(id, "none") =>
              /\ trips' = {t \in trips : t.id # id}
              /\ expenses' = {e \in expenses : ~SameTrip(e, getTrip(trips, id))}]_vars

\* C2 witness: a deleteTrip has succeeded while an expense with the same
\* trip name of another user, and another trip row, are still stored.
C2_Witness ==
    /\ last.op = "deleteTrip" /\ last.outcome = "ok"
    /\ nextTripId > MaxTrips /\ Cardinality(trips) = MaxTrips - 1
    /\ \E t \in trips : \E e \in expenses : e.tripName = t.name /\ e.userId # t.userId

\* C3: a deleteTrip in which a step fails (no trip with that id, the expense
\* delete fails, the trip delete fails) leaves the trip rows and the expense
\* rows as they were and throws.
C3_DeleteTripAtomic ==
    [][last'.op = "deleteTrip" =>
          \A id \in TripIds :
          (deleteTrip(id, last'.fault)
             /\ (last'.fault # "none" \/ getTrip(trips, id) = NoTrip)) =>
              /\ last'.outcome = "error"
              /\ trips' = trips
              /\ expenses' = expenses]_vars

\* C3 witness: the trip delete failed after the transaction had deleted an
\* expense, and that expense is stored.
C3_Witness ==
    /\ last.op = "deleteTrip" /\ last.fault = "tripDelete" /\ last.outcome = "error"
    /\ last.cascaded
    /\ \E t \in trips : \E e \in expenses : SameTrip(e, t)

(***************************************************************************)
(* Claims on the receipt flow and the routes, checked under Spec.          *)
(***************************************************************************)
HefuRoutes == {"createExpense", "updateExpense"}
ReceiptRoutes == {"getReceipt", "postUpload"}

\* C4 as stated: in every reachable state every expense row with a non-null
\* receiptPath names an object that exists in the bucket.
C4_ReceiptPathsExist ==
    \A e \in expenses : e.receiptPath # Null => e.receiptPath \in bucket

\* C5: the receipt route goes on to sign only for an authenticated user and
\* an existing expense with that id, owned by that user, with a receipt; the
\* URL it answers is the one signed for that expense's receiptPath.
C5_ReceiptUrlOnlyForOwner ==
    [][\A r \in Reqs :
         LET a == reqs[r]
             b == reqs'[r]
         IN  /\ (a.route = "getReceipt" /\ a.pc = "getExpense" /\ b.pc = "getFileUrl") =>
                   /\ a.user # 0
                   /\ a.id = ParseInt(a.param)
                   /\ \E e \in expenses : /\ e.id = a.id
                                          /\ e.userId = a.user
                                          /\ e.receiptPath # Null
                                          /\ b.old = e.receiptPath
                                          /\ b.target = e.userId
             /\ (b.route = "getReceipt" /\ b.url # NoUrl /\ b # a) =>
                   /\ a.route = "getReceipt" /\ a.pc = "getFileUrl"
                   /\ a.user # 0 /\ a.target = a.user /\ a.old # Null
                   /\ b.url = SignedUrl(a.old)
                   /\ b.status = 200 /\ b.user = a.user]_vars

\* C5 witness: a receipt request was answered with a signed URL.
C5_Witness ==
    \E r \in Reqs : /\ reqs[r].route = "getReceipt"
                    /\ reqs[r].status = 200
                    /\ reqs[r].url # NoUrl

C7_DeleteBeforeUpload ==
    [][\A r \in Reqs :
         LET a == reqs[r]
             b == reqs'[r]
         IN  /\ (/\ b.route \in HefuRoutes /\ b.pc = "upload" /\ a.pc # "upload"
                 /\ b.old # Null) =>
                   /\ a.pc = "deleteOld" /\ a.uploads = 0 /\ a.del = "none"
                   /\ b.del \in {"ok", "failed"}
                   /\ b.uploads = 1
             /\ (b.route \in HefuRoutes /\ a.pc = "upload" /\ b.pc = "persist") =>
                   /\ b.result = a.newPath
                   /\ a.newPath = StoragePath(a.user, a.newPath.ts, a.file)
                   /\ a.newPath \notin bucket
                   /\ a.newPath \in bucket']_vars

\* C7 witness: a replacement has returned the new key after its delete of
\* the old object had finished.
C7_Witness ==
    \E r \in Reqs : /\ reqs[r].route = "updateExpense" /\ reqs[r].pc = "persist"
                    /\ reqs[r].file # "" /\ reqs[r].old # Null
                    /\ reqs[r].del \in {"ok", "failed"}
                    /\ reqs[r].result = reqs[r].newPath
                    /\ reqs[r].result \in bucket

C9_OldRemovedAsStated ==
    [][\A r \in Reqs :
         (/\ reqs[r].route \in HefuRoutes
          /\ reqs[r].pc = "upload" /\ reqs'[r].pc = "persist"
          /\ reqs[r].old # Null) => reqs[r].old \notin bucket']_vars

\* C9 amended: when handleExpenseFileUpload with a file and an old receipt
\* path returns, the old object is no longer in the bucket provided its
\* delete succeeded and no upload has stored an object under the old key
\* since that delete.
C9_OldRemovedWhenDeleteSucceeded ==
    [][\A r \in Reqs :
         (/\ reqs[r].route \in HefuRoutes
          /\ reqs[r].pc = "upload" /\ reqs'[r].pc = "persist"
          /\ reqs[r].old # Null
          /\ reqs[r].del = "ok"
          /\ ~reqs'[r].reused) => reqs[r].old \notin bucket']_vars

\* C9 witness: a replacement has returned, its delete succeeded, and the
\* old object is gone while the new one is stored.
C9_Witness ==
    \E r \in Reqs : /\ reqs[r].route = "updateExpense" /\ reqs[r].pc = "persist"
                    /\ reqs[r].old # Null /\ reqs[r].del = "ok" /\ ~reqs[r].reused
                    /\ reqs[r].old \notin bucket
                    /\ reqs[r].result \in bucket

\* C10 as stated: a receipt or upload request without an authenticated
\* session is answered 401 whatever its id or body, with no expense lookup,
\* no upload and no signing.
C10_Unauthenticated401AsStated ==
    \A r \in Reqs :
        (reqs[r].route \in ReceiptRoutes /\ reqs[r].user = 0) =>
            /\ reqs[r].pc = "done"
            /\ reqs[r].status = 401
            /\ ~reqs[r].looked /\ reqs[r].uploads = 0 /\ reqs[r].signs = 0

\* C10 amended: such a request causes no expense lookup, no upload and no
\* signing, and is answered 401 when the body parsers accept its body; a
\* body they reject is answered 400 (malformed JSON) or 413 (multipart body
\* over the limit) by the error middleware before the handler runs.
C10_Unauthenticated401 ==
    \A r \in Reqs :
        (reqs[r].route \in ReceiptRoutes /\ reqs[r].user = 0) =>
            /\ reqs[r].pc = "done"
            /\ ~reqs[r].looked /\ reqs[r].uploads = 0 /\ reqs[r].signs = 0
            /\ reqs[r].url = NoUrl /\ reqs[r].result = Null
            /\ reqs[r].body = "ok" => reqs[r].status = 401
            /\ reqs[r].body = "badJson" => reqs[r].status = 400
            /\ reqs[r].body = "tooLarge" => reqs[r].status = 413

\* C10 witness: both routes have answered 401 to a request without a session
\* (here: the upload route, with a file in the request).
C10_Witness ==
    \E r \in Reqs : /\ reqs[r].route = "postUpload" /\ reqs[r].user = 0
                    /\ reqs[r].body = "ok" /\ reqs[r].status = 401

(***************************************************************************)
(* Claims on the error mapping of the receipt routes, checked under Spec.  *)
(***************************************************************************)

\* req.params.id is an integer: decimal digits and nothing else.
IsInteger(s) == s # <<>> /\ \A i \in 1..Len(s) : IsDigit(s[i])

\* C11 as stated: an authenticated GET /api/expenses/receipt/:id is answered
\* 400 without an expense lookup when the id is not an integer; otherwise
\* 404 when no expense has that id, else 403 when the expense is another
\* user's, else 404 when it has no receipt, and only then is a URL signed.
C11_ErrorMappingAsStated ==
    [][\A r \in Reqs :
         LET a == reqs[r]
             b == reqs'[r]
         IN  /\ (b.route = "getReceipt" /\ b # a /\ Free(r) /\ b.user # 0 /\ b.body = "ok") =>
                   \A p \in Params : GetReceipt(r, b.user, p, "ok") =>
                       IF IsInteger(p)
                       THEN b.pc = "getExpense" /\ b.id = ParseInt(p)
                       ELSE b.pc = "done" /\ b.status = 400 /\ ~b.looked
             /\ (a.route = "getReceipt" /\ a.pc = "getExpense" /\ b # a /\ b.err = "") =>
                   LET expense == getExpense(expenses, a.id)
                   IN  IF expense = NoExpense THEN b.pc = "done" /\ b.status = 404
                       ELSE IF expense.userId # a.user THEN b.pc = "done" /\ b.status = 403
                       ELSE IF expense.receiptPath = Null THEN b.pc = "done" /\ b.status = 404
                       ELSE b.pc = "getFileUrl" /\ b.status = 0]_vars

\* The error middleware has answered the request of step a -> b: one
\* response, status 500, a body of one field carrying the error's message,
\* and nothing of what the handler would have answered.
Answered500(a, b, what) ==
    /\ b.pc = "done" /\ b.status = 500
    /\ a.sent = 0 /\ b.sent = 1
    /\ b.fields = {"message"} /\ b.err = what
    /\ b.url = NoUrl /\ b.result = Null

\* C12: when the expense lookup, the signing or the upload throws inside a
\* receipt route handler, the request is answered once, by the error
\* middleware, with status 500 and a body carrying the error's message.
C12_UnexpectedFailure500 ==
    [][\A r \in Reqs :
         LET a == reqs[r]
             b == reqs'[r]
         IN  (a.route \in ReceiptRoutes /\ b # a) =>
               /\ (a.pc = "getExpense" /\ GetReceiptLookup(r, FALSE)) => Answered500(a, b, "db")
               /\ (a.pc = "getFileUrl" /\ GetReceiptSign(r, FALSE)) => Answered500(a, b, "sign")
               /\ (a.pc = "upload" /\ bucket' = bucket) => Answered500(a, b, "upload")]_vars

\* C12 witness: the signing threw in a receipt request of the expense's
\* owner and the request was answered 500 by the error middleware.
C12_Witness ==
    \E r \in Reqs : /\ reqs[r].route = "getReceipt" /\ reqs[r].err = "sign"
                    /\ reqs[r].status = 500 /\ reqs[r].sent = 1
                    /\ reqs[r].signs = 1
                    /\ \E e \in expenses : e.userId = reqs[r].user /\ e.receiptPath # Null

(***************************************************************************)
(* Claims on the entry points, checked under SpecApp.                      *)
(***************************************************************************)

\* C13 as stated: every error response of a route handler, of the error
\* middleware, of the 404 handler and of the serverless handler has a JSON
\* body with the single field message.
C13_UniformErrorBodyAsStated ==
    \A r \in Reqs :
        (reqs[r].route \in AppRoutes /\ reqs[r].pc = "done" /\ reqs[r].status >= 400) =>
            reqs[r].fields = {"message"}

(***************************************************************************)
(* Claims on the object keys, checked under Spec.                          *)
(***************************************************************************)

\* C14: an upload sent by FileHandler.uploadFile has the key made of the
\* request's authenticated user, the time at which it is sent and the
\* file's original name; an object enters the bucket only as the key of the
\* upload that has just succeeded, and that key is what uploadFile returns.
C14_ObjectKey ==
    [][/\ \A r \in Reqs :
            LET a == reqs[r]
                b == reqs'[r]
            IN  /\ (b.pc = "upload" /\ a.pc # "upload") =>
                      /\ b.user # 0 /\ b.file # ""
                      /\ b.newPath = [user |-> b.user, ts |-> now, name |-> b.file]
                /\ (a.pc = "upload" /\ b.pc # "upload" /\ b.err = "") =>
                      /\ bucket' = bucket \cup {a.newPath}
                      /\ a.newPath \notin bucket
                      /\ b.result = a.newPath
       /\ \A k \in bucket' \ bucket :
            \E r \in Reqs : /\ reqs[r].pc = "upload" /\ reqs'[r] # reqs[r]
                            /\ k = reqs[r].newPath
                            /\ k.user = reqs[r].user /\ k.name = reqs[r].file]_vars

\* C14 witness: the upload route has answered with the key of an object it
\* stored after the clock had advanced: the user's id, that time, the name.
C14_Witness ==
    \E r \in Reqs : /\ reqs[r].route = "postUpload" /\ reqs[r].status = 200
                    /\ reqs[r].result \in bucket
                    /\ reqs[r].result.user = reqs[r].user
                    /\ reqs[r].result.ts = MaxTime
                    /\ reqs[r].result.name \in FileNames

\* C15 as stated, for an upload and the upload that replaces its object: a
\* successful upload never returns the key an earlier successful upload
\* returned (here the key of the receipt the request is replacing), and it
\* stores under a key that is not in the bucket.
C15_DistinctPathsAsStated ==
    [][\A r \in Reqs :
         LET a == reqs[r]
             b == reqs'[r]
         IN  (a.pc = "upload" /\ b.pc # "upload" /\ b.err = "") =>
                 /\ a.newPath \notin bucket
                 /\ a.newPath # a.old]_vars

(***************************************************************************)
(* The users table (README.md: users; username and email are unique) and   *)
(* the PostgresStorage methods that write it, called directly (SpecUsers). *)
(* email "" is the column's default, stored when no email is given.        *)
(***************************************************************************)
MaxUserIds == 3

Usernames == {"ann", "bob"}
Emails == {"", "a@x", "b@x"}
FirstNames == {"", "F"}

\* username text not null unique, email text not null unique: the row would
\* share its username or its email with another row.
NoConstraint(U, row) == FALSE

UniqueViolation(U, row) ==
    \E u \in U : u.id # row.id /\ (u.username = row.username \/ u.email = row.email)

\* insert(users).values(userData).returning(); "h0" is the password hash
\* every user registers with.
InsertUserRow(U, nextId, userData) ==
    LET row == [id |-> nextId, username |-> userData.username, email |-> userData.email,
                firstName |-> "", password |-> "h0"]
    IN  IF UniqueViolation(U, row)
        THEN [threw |-> TRUE, users |-> U]
        ELSE [threw |-> FALSE, users |-> U \cup {row}]

\* update(users).set(updateData).where(eq(users.id, userId)).returning();
\* no row with that id: undefined is returned, nothing is thrown.
UpdateUserRows(U, userId, updateData) ==
    LET hit == {u \in U : u.id = userId}
    IN  IF DOMAIN updateData = {} THEN [threw |-> TRUE, users |-> U]
        ELSE IF hit = {} THEN [threw |-> FALSE, users |-> U]
        ELSE LET old == CHOOSE u \in hit : TRUE
                 new == SetFields(old, updateData)
             IN  IF UniqueViolation(U, new)
                 THEN [threw |-> TRUE, users |-> U]
                 ELSE [threw |-> FALSE, users |-> (U \ {old}) \cup {new}]

UsersFrame ==
    UNCHANGED <<trips, expenses, nextTripId, nextExpenseId, bucket, now, reqs, app, tx, svc, viewer>>

\* The id sequence advances with every insert, failed or not.
createUser(userData) ==
    /\ nextUserId <= MaxUserIds
    /\ LET r == InsertUserRow(users, nextUserId, userData)
       IN  /\ users' = r.users
           /\ last' = [NoCall EXCEPT !.op = "createUser", !.outcome = Outcome(r)]
    /\ nextUserId' = nextUserId + 1
    /\ UsersFrame

updateUserProfile(userId, profileData) ==
    /\ LET r == UpdateUserRows(users, userId, profileData)
       IN  /\ users' = r.users
           /\ last' = [NoCall EXCEPT !.op = "updateUserProfile", !.outcome = Outcome(r)]
    /\ nextUserId' = nextUserId
    /\ UsersFrame

UserIds == 1..MaxUserIds

ProfileData ==
    {[firstName |-> f] : f \in FirstNames}
        \cup {[firstName |-> f, email |-> e] : f \in FirstNames, e \in Emails}

NextUsers ==
    \/ \E n \in Usernames, e \in Emails : createUser([username |-> n, email |-> e])
    \/ \E id \in UserIds, d \in ProfileData : updateUserProfile(id, d)

SpecUsers == Init /\ [][NextUsers]_vars

\* C16: no two user rows share a username and no two share an email; a
\* createUser whose username or email a row already has, and an
\* updateUserProfile that sets an email another row already has, fail and
\* leave the users table unchanged.
C16_UniqueUsers ==
    [][/\ \A u1, u2 \in users' :
             u1 # u2 => (u1.id # u2.id /\ u1.username # u2.username /\ u1.email # u2.email)
       /\ last'.op = "createUser" =>
             \A n \in Usernames, e \in Emails :
                 (/\ createUser([username |-> n, email |-> e])
                  /\ \E u \in users : u.username = n \/ u.email = e) =>
                     users' = users /\ last'.outcome = "error"
       /\ last'.op = "updateUserProfile" =>
             \A id \in UserIds, d \in ProfileData :
                 (/\ updateUserProfile(id, d)
                  /\ "email" \in DOMAIN d
                  /\ \E u \in users : u.id = id
                  /\ \E u \in users : u.id # id /\ u.email = d.email) =>
                     users' = users /\ last'.outcome = "error"]_vars

\* C16 witness: two users are stored and the call that has just returned, a
\* createUser with a taken username or email, failed.
C16_Witness ==
    /\ Cardinality(users) = 2
    /\ last.op = "createUser" /\ last.outcome = "error"

(***************************************************************************)
(* The trip and expense rows of one user written by create and update      *)
(* calls with every field the data can carry (SpecRows).  The store's      *)
(* methods take userId as data and look at no session.                     *)
(***************************************************************************)
Costs == {-1, 0, 1}
Descriptions == {"", "d"}

RowOwner == CHOOSE u \in Users : TRUE

\* Partial<InsertTrip>: any of name and description, or neither.
TripData ==
    {[name |-> n] : n \in TripNames}
        \cup {[description |-> d] : d \in Descriptions}
        \cup {[name |-> n, description |-> d] : n \in TripNames, d \in Descriptions}
        \cup {[f \in {} |-> ""]}

\* Partial<InsertExpense>: any of tripName and cost, or neither.
ExpenseData ==
    {[tripName |-> n] : n \in TripNames}
        \cup {[cost |-> c] : c \in Costs}
        \cup {[tripName |-> n, cost |-> c] : n \in TripNames, c \in Costs}
        \cup {[f \in {} |-> ""]}

NextRows ==
    \/ \E n \in TripNames : createTrip(RowOwner, n)
    \/ \E id \in TripIds, d \in TripData : updateTrip(id, d)
    \/ \E n \in TripNames, c \in Costs : createExpense(RowOwner, n, c)
    \/ \E id \in ExpenseIds, d \in ExpenseData : updateExpense(id, d)

SpecRows == Init /\ [][NextRows]_vars

\* C17 as stated: in every reachable state the cost of every expense row is
\* at least zero.
C17_CostNonNegative ==
    \A e \in expenses : e.cost >= 0

\* The rows R2 are the rows R1 with the fields of data set on the row with
\* that id and nothing else changed.
OnlyFieldsOf(R1, R2, id, data) ==
    /\ Cardinality(R2) = Cardinality(R1)
    /\ \A x \in R1 : x.id # id => x \in R2
    /\ \A x \in R1 : x.id = id =>
          \E y \in R2 : /\ y.id = id
                        /\ \A f \in DOMAIN x :
                              y[f] = IF f \in DOMAIN data THEN data[f] ELSE x[f]

InitOrder == <<"storage", "auth", "routes", "errors">>

\* C19: the steps of the initialisation complete in the order storage,
\* authentication, routes, error middleware; a request is handed to the
\* Express app only once appPromise has resolved, all four done; once
\* appPromise has rejected every request is answered 500 "Internal Server
\* Error" by the serverless handler and none is handed to the app.
C19_InitBeforeRequests ==
    [][/\ \A i \in 1..Len(app'.steps) : i <= Len(InitOrder) => app'.steps[i] = InitOrder[i]
       /\ app'.promise = "resolved" => Len(app'.steps) > Len(InitOrder)
       /\ \A r \in Reqs :
            LET a == reqs[r]
                b == reqs'[r]
            IN  /\ (b.handed /\ ~a.handed) =>
                      /\ app.promise = "resolved"
                      /\ SubSeq(app.steps, 1, Len(InitOrder)) = InitOrder
                /\ (a.pc = "awaitApp" /\ b # a /\ app.promise = "rejected") =>
                      /\ b.pc = "done" /\ b.status = 500 /\ b.sent = 1
                      /\ b.err = "Internal Server Error"
                      /\ ~b.handed /\ ~b.looked
                /\ app'.promise = "rejected" => ~b.handed]_vars

\* C19 witness: a receipt request has been handed to the initialised app and
\* waits for its expense lookup.
C19_Witness ==
    \E r \in Reqs : /\ reqs[r].handed /\ reqs[r].route = "getReceipt"
                    /\ reqs[r].pc = "getExpense"
                    /\ app.promise = "resolved"
                    /\ SubSeq(app.steps, 1, Len(InitOrder)) = InitOrder

\* C20 as stated: the status endpoint answers 200 with database "connected"
\* only if the connection test succeeded, and 500 with database "error"
\* whenever the database could not be reached.
C20_StatusReflectsDatabase ==
    \A r \in Reqs :
        (reqs[r].route = "status" /\ reqs[r].pc = "done") =>
            IF app.dbUp
            THEN reqs[r].status = 200 /\ reqs[r].database = "connected"
            ELSE reqs[r].status = 500 /\ reqs[r].database = "error"

(***************************************************************************)
(* FileHandler.handleExpenseFileUpload on a request without a file.        *)
(***************************************************************************)

\* The expense routes that call handleExpenseFileUpload, alone: create and
\* update, with and without a file.
NextExpenseRoutes ==
    \/ \E r \in Reqs, u \in 0..NumUsers, f \in FileNames \cup {""} :
          PostExpense(r, u, "A", f)
    \/ \E r \in Reqs, u \in 0..NumUsers, id \in RouteExpenseIds, f \in FileNames \cup {""} :
          ExpenseById(r, "updateExpense", u, id, "", f)
    \/ \E r \in Reqs : ExpenseLookup(r)
    \/ \E r \in Reqs, ok \in BOOLEAN : DeleteOld(r, ok)
    \/ \E r \in Reqs, ok \in BOOLEAN : Upload(r, ok)
    \/ \E r \in Reqs : Persist(r)

SpecExpenseRoutes == Init /\ [][NextExpenseRoutes]_vars

\* The receipt path the route passes as oldReceiptPath: the looked-up
\* expense's path in an update, none in a create.
OldReceiptPathOf(rec) ==
    IF rec.route = "updateExpense" THEN getExpense(expenses, rec.id).receiptPath ELSE Null

\* C21: when an expense route's request has no file, handleExpenseFileUpload
\* returns the old receipt path (null when there is none), no delete and no
\* upload has been sent to storage, and the bucket is unchanged.
C21_NoFileKeepsReceipt ==
    [][\A r \in Reqs :
          LET a == reqs[r]
              b == reqs'[r]
          IN  (/\ b.route \in {"createExpense", "updateExpense"}
               /\ a.pc # "persist" /\ b.pc = "persist" /\ b.file = "") =>
                  /\ b.result = OldReceiptPathOf(b)
                  /\ b.uploads = 0 /\ b.del = "none" /\ b.newPath = Null
                  /\ bucket' = bucket]_vars

\* C21 witness: an update without a file of an expense that has a receipt has
\* got that receipt's path back, and the object is in the bucket.
C21_Witness ==
    \E r \in Reqs : /\ reqs[r].route = "updateExpense" /\ reqs[r].pc = "persist"
                    /\ reqs[r].file = "" /\ reqs[r].result # Null
                    /\ reqs[r].result \in bucket
                    /\ reqs[r].uploads = 0 /\ reqs[r].del = "none"

(***************************************************************************)
(* createExpense called with every shape of expenseData (SpecFields).  A   *)
(* JavaScript value is a record: its type tag t and, for a string or a     *)
(* number, the value v.  The users table is filled by createUser;          *)
(* expenses.user_id references users.id.                                   *)
(***************************************************************************)
Undefined == [t |-> "undefined"]
JsNull == [t |-> "null"]
Str(s) == [t |-> "string", v |-> s]
Num(n) == [t |-> "number", v |-> n]

\* const requiredFields = ['date', 'type', 'vendor', 'location', 'cost', 'tripName']
requiredFields == <<"date", "type", "vendor", "location", "cost", "tripName">>

FieldsButVendor == <<"date", "type", "location", "cost", "tripName">>

\* expenseData[field] === undefined || expenseData[field] === null
IsNullish(x) == x.t = "undefined" \/ x.t = "null"

\* The loop over the required fields: the first field it throws on, "" when
\* it throws on none.  A nullish cost is not a number, so it throws as well.
RECURSIVE FirstMissing(_, _)
FirstMissing(fields, expenseData) ==
    IF fields = <<>> THEN ""
    ELSE LET field == Head(fields)
         IN  IF IsNullish(expenseData[field])
             THEN IF field = "cost" /\ expenseData.cost.t # "number" THEN field
                  ELSE IF field # "cost" THEN field
                  ELSE FirstMissing(Tail(fields), expenseData)
             ELSE FirstMissing(Tail(fields), expenseData)

SkipsVendor(expenseData) == FirstMissing(FieldsButVendor, expenseData)

RequiredFieldMissing(expenseData) == FirstMissing(requiredFields, expenseData)

\* user_id integer not null references users(id)
ForeignKeyViolation(U, userId) == ~ \E u \in U : u.id = userId

\* createExpense(expenseData): the loop, then the insert; the insert of a row
\* whose user does not exist is rejected by the database.
CreateExpenseRow(E, U, nextId, expenseData) ==
    IF RequiredFieldMissing(expenseData) # ""
    THEN [threw |-> TRUE, err |-> "Missing required expense field", expenses |-> E,
          row |-> NoExpense]
    ELSE IF ForeignKeyViolation(U, expenseData.userId.v)
    THEN [threw |-> TRUE, err |-> "foreign key violation", expenses |-> E, row |-> NoExpense]
    ELSE InsertExpense(E, nextId, expenseData.userId.v, expenseData.tripName.v, Null,
                       expenseData.cost.v)

\* The call with its data given whole.  The id sequence advances when the
\* insert statement was sent, rejected or not.
createExpenseData(expenseData) ==
    /\ nextExpenseId <= MaxExpenses
    /\ LET r == CreateExpenseRow(expenses, users, nextExpenseId, expenseData)
       IN  /\ expenses' = r.expenses
           /\ nextExpenseId' = IF RequiredFieldMissing(expenseData) # "" THEN nextExpenseId
                               ELSE nextExpenseId + 1
           /\ last' = [NoCall EXCEPT !.op = "createExpense", !.outcome = Outcome(r)]
    /\ UNCHANGED <<trips, nextTripId, bucket, now, reqs, app, users, nextUserId, tx, svc, viewer>>

\* The value a field has when it is given.
GivenValue(field, tripName) ==
    IF field = "cost" THEN Num(0)
    ELSE IF field = "tripName" THEN Str(tripName)
    ELSE Str("x")

RequiredFieldSet == {requiredFields[i] : i \in 1..Len(requiredFields)}

\* The choices of the fields given: all six, all but one, none.
GivenFields ==
    {RequiredFieldSet, {}} \cup {RequiredFieldSet \ {f} : f \in RequiredFieldSet}

\* The fields not given are all undefined or all null.
ExpenseInputs ==
    {[f \in RequiredFieldSet \cup {"userId"} |->
          IF f = "userId" THEN Num(u)
          ELSE IF f \in given THEN GivenValue(f, n)
          ELSE nullish] :
       u \in Users, n \in TripNames, given \in GivenFields,
       nullish \in {Undefined, JsNull}}

\* The email a user registers with.
EmailOf(username) == IF username = "ann" THEN "a@x" ELSE "b@x"

NextFields ==
    \/ \E n \in Usernames : createUser([username |-> n, email |-> EmailOf(n)])
    \/ \E d \in ExpenseInputs : createExpenseData(d)

SpecFields == Init /\ [][NextFields]_vars

AllGiven(d) == \A f \in RequiredFieldSet : d[f].t \notin {"undefined", "null"}

OneRowAdded(d) ==
    \E row \in expenses' : /\ row \notin expenses
                           /\ expenses' = expenses \cup {row}
                           /\ row.userId = d.userId.v
                           /\ \A e \in expenses : e.id # row.id

\* C22 as stated: a createExpense with a required field undefined or null
\* throws and inserts no row; with all six given it inserts exactly one row,
\* which carries the given userId.
C22_RequiredFieldsAsStated ==
    [][last'.op = "createExpense" =>
          \A d \in ExpenseInputs : createExpenseData(d) =>
              IF AllGiven(d) THEN OneRowAdded(d) /\ last'.outcome = "ok"
              ELSE expenses' = expenses /\ last'.outcome = "error"]_vars

\* C22: a createExpense with a required field undefined or null throws and
\* inserts no row; with all six given and a userId that a users row has, it
\* inserts exactly one row, which carries that userId; with all six given and
\* a userId no users row has, the insert is rejected and no row is inserted.
C22_RequiredFields ==
    [][last'.op = "createExpense" =>
          \A d \in ExpenseInputs : createExpenseData(d) =>
              IF ~AllGiven(d) THEN expenses' = expenses /\ last'.outcome = "error"
              ELSE IF \E u \in users : u.id = d.userId.v
              THEN OneRowAdded(d) /\ last'.outcome = "ok"
              ELSE expenses' = expenses /\ last'.outcome = "error"]_vars

\* C22 witness: a createExpense has just returned a row for a stored user.
C22_Witness ==
    /\ last.op = "createExpense" /\ last.outcome = "ok"
    /\ \E e \in expenses : \E u \in users : u.id = e.userId

(***************************************************************************)
(* The store's update and delete methods called with ids that may match no *)
(* row (SpecMissing).  last tells which method has just returned and how:  *)
(* "ok", "undefined" for a returned undefined, or the error thrown.        *)
(***************************************************************************)
Hashes == {"h0", "h1"}

\* update(users).set({password}).where(eq(users.id, userId)).returning({id})
UpdateUserPasswordRows(U, userId, newPasswordHash) ==
    LET hit == {u \in U : u.id = userId}
    IN  IF hit = {}
        THEN [threw |-> TRUE, err |-> "User not found", users |-> U]
        ELSE LET old == CHOOSE u \in hit : TRUE
             IN  [threw |-> FALSE, err |-> "",
                  users |-> (U \ {old}) \cup {[old EXCEPT !.password = newPasswordHash]}]

Returned(op, r) ==
    [NoCall EXCEPT !.op = op, !.outcome = IF r.threw THEN r.err ELSE "ok"]

updateTripCall(id, tripData) ==
    /\ LET r == UpdateTripRows(trips, id, tripData)
       IN  trips' = r.trips /\ last' = Returned("updateTrip", r)
    /\ UNCHANGED <<expenses, nextTripId, nextExpenseId, bucket, now, reqs, app, users, nextUserId, tx, svc, viewer>>

updateExpenseCall(id, expenseData) ==
    /\ LET r == UpdateExpenseRows(expenses, id, expenseData)
       IN  expenses' = r.expenses /\ last' = Returned("updateExpense", r)
    /\ UNCHANGED <<trips, nextTripId, nextExpenseId, bucket, now, reqs, app, users, nextUserId, tx, svc, viewer>>

deleteExpenseCall(id) ==
    /\ expenses' = DeleteExpenseRow(expenses, id)
    /\ last' = [NoCall EXCEPT !.op = "deleteExpense"]
    /\ UNCHANGED <<trips, nextTripId, nextExpenseId, bucket, now, reqs, app, users, nextUserId, tx, svc, viewer>>

\* if (result.length === 0) return undefined
updateUserProfileCall(userId, profileData) ==
    /\ LET r == UpdateUserRows(users, userId, profileData)
       IN  /\ users' = r.users
           /\ last' = [NoCall EXCEPT !.op = "updateUserProfile",
                          !.outcome = IF r.threw THEN "error"
                                      ELSE IF \E u \in users : u.id = userId THEN "ok"
                                      ELSE "undefined"]
    /\ UNCHANGED <<trips, expenses, nextTripId, nextExpenseId, bucket, now, reqs, app, nextUserId, tx, svc, viewer>>

updateUserPassword(userId, newPasswordHash) ==
    /\ LET r == UpdateUserPasswordRows(users, userId, newPasswordHash)
       IN  users' = r.users /\ last' = Returned("updateUserPassword", r)
    /\ UNCHANGED <<trips, expenses, nextTripId, nextExpenseId, bucket, now, reqs, app, nextUserId, tx, svc, viewer>>

\* The data of the calls: one field or none for a trip and for an expense,
\* the two required fields for a profile.
EmptyData == [f \in {} |-> ""]
MissingTripData == {[name |-> "B"], EmptyData}
MissingExpenseData == {[tripName |-> "B"], EmptyData}
MissingProfileData == {[firstName |-> "F", email |-> "a@x"]}
NewHashes == Hashes \ {"h0"}

NextMissing ==
    \/ createTrip(RowOwner, "A")
    \/ createExpense(RowOwner, "A", 0)
    \/ createUser([username |-> "ann", email |-> EmailOf("ann")])
    \/ \E id \in TripIds, d \in MissingTripData : updateTripCall(id, d)
    \/ \E id \in ExpenseIds, d \in MissingExpenseData : updateExpenseCall(id, d)
    \/ \E id \in ExpenseIds : deleteExpenseCall(id)
    \/ \E id \in UserIds, d \in MissingProfileData : updateUserProfileCall(id, d)
    \/ \E id \in UserIds, h \in NewHashes : updateUserPassword(id, h)

SpecMissing == Init /\ [][NextMissing]_vars

StoreUnchanged == trips' = trips /\ expenses' = expenses /\ users' = users

NoTripWith(id) == ~ \E t \in trips : t.id = id
NoExpenseWith(id) == ~ \E e \in expenses : e.id = id
NoUserWith(id) == ~ \E u \in users : u.id = id

\* The three methods that return nothing more to compare than their outcome.
MissingIdOthers ==
    /\ last'.op = "updateUserPassword" =>
          \A id \in UserIds, h \in NewHashes :
              (updateUserPassword(id, h) /\ NoUserWith(id)) =>
                  last'.outcome = "User not found" /\ StoreUnchanged
    /\ last'.op = "updateUserProfile" =>
          \A id \in UserIds, d \in MissingProfileData :
              (updateUserProfileCall(id, d) /\ NoUserWith(id)) =>
                  last'.outcome = "undefined" /\ StoreUnchanged
    /\ last'.op = "deleteExpense" =>
          \A id \in ExpenseIds :
              (deleteExpenseCall(id) /\ NoExpenseWith(id)) =>
                  last'.outcome = "ok" /\ StoreUnchanged

\* C23 as stated: on an id that matches no row updateExpense, updateTrip and
\* updateUserPassword throw a not-found error, updateUserProfile returns
\* undefined and deleteExpense completes without error; the store is
\* unchanged in all five cases.
C23_MissingIdAsStated ==
    [][/\ MissingIdOthers
       /\ last'.op = "updateTrip" =>
             \A id \in TripIds, d \in MissingTripData :
                 (updateTripCall(id, d) /\ NoTripWith(id)) =>
                     last'.outcome = "Trip not found" /\ StoreUnchanged
       /\ last'.op = "updateExpense" =>
             \A id \in ExpenseIds, d \in MissingExpenseData :
                 (updateExpenseCall(id, d) /\ NoExpenseWith(id)) =>
                     last'.outcome = "Expense not found" /\ StoreUnchanged]_vars

\* C23: as stated for updateUserPassword, updateUserProfile and deleteExpense;
\* updateTrip and updateExpense on an id that matches no row throw a
\* not-found error when the data names a field, and the error of an update
\* without values when it names none; the store is unchanged either way.
C23_MissingId ==
    [][/\ MissingIdOthers
       /\ last'.op = "updateTrip" =>
             \A id \in TripIds, d \in MissingTripData :
                 (updateTripCall(id, d) /\ NoTripWith(id)) =>
                     /\ last'.outcome = IF DOMAIN d = {} THEN "No values to set"
                                        ELSE "Trip not found"
                     /\ StoreUnchanged
       /\ last'.op = "updateExpense" =>
             \A id \in ExpenseIds, d \in MissingExpenseData :
                 (updateExpenseCall(id, d) /\ NoExpenseWith(id)) =>
                     /\ last'.outcome = IF DOMAIN d = {} THEN "No values to set"
                                        ELSE "Expense not found"
                     /\ StoreUnchanged]_vars

\* C23 witness: with an expense, a trip and a user stored, an updateExpense
\* has just thrown its not-found error.
C23_Witness ==
    /\ last.op = "updateExpense" /\ last.outcome = "Expense not found"
    /\ expenses # {} /\ trips # {} /\ users # {}

(***************************************************************************)
(* FileHandler.uploadFile and the local file multer has written.           *)
(***************************************************************************)

\* The request's uploadFile call has sent its upload and has finished.
UploadFileFinished(rec) == rec.uploads > 0 /\ rec.pc # "upload"

\* C24 as stated: once an uploadFile call on a request with a file and a user
\* has finished, with a storage path or with an error, the local file no
\* longer exists; a request that has not contacted storage has no local file
\* left to delete.
C24_LocalFileDeletedAsStated ==
    \A r \in Reqs :
        /\ UploadFileFinished(reqs[r]) => reqs[r].local = "deleted"
        /\ reqs[r].uploads = 0 => reqs[r].local = "none"

\* C25 as stated: in every state reached by the six trip and expense methods
\* each expense row's (userId, tripName) is the (userId, name) of a trip row.
C25_ExpensesReferenceTripAsStated ==
    \A e \in expenses : \E t \in trips : SameTrip(e, t)

(***************************************************************************)
(* deleteTrip statement by statement (SpecTx).  The transaction runs at    *)
(* the database's default isolation, read committed: each statement sees   *)
(* the rows committed when it starts, the transaction's own deletes are    *)
(* hidden from other sessions until the commit, and an insert of another   *)
(* session is its own transaction and commits at once.  tx.deleted holds   *)
(* the expense rows the open transaction has deleted.                      *)
(***************************************************************************)
TxFrame ==
    UNCHANGED <<nextTripId, nextExpenseId, bucket, now, reqs, last, app, users, nextUserId, svc, viewer>>

\* tx.select({name, userId}).from(trips).where(eq(trips.id, id)).limit(1);
\* if (!trip[0]) throw: the transaction is rolled back.
TxSelectTrip(id) ==
    /\ tx.pc \in {"idle", "done"}
    /\ LET trip == getTrip(trips, id)
       IN  tx' = IF trip = NoTrip
                 THEN [NoTx EXCEPT !.pc = "done", !.id = id, !.outcome = "error"]
                 ELSE [NoTx EXCEPT !.pc = "selected", !.id = id, !.trip = trip]
    /\ UNCHANGED <<trips, expenses>>
    /\ TxFrame

\* tx.delete(expenses).where(and(eq(userId, trip.userId), eq(tripName, trip.name)))
TxDeleteExpenses ==
    /\ tx.pc = "selected"
    /\ tx' = [tx EXCEPT !.pc = "expensesDeleted",
                        !.deleted = expenses \ DeleteAssociatedExpenses(expenses, tx.trip)]
    /\ UNCHANGED <<trips, expenses>>
    /\ TxFrame

\* tx.delete(trips).where(eq(trips.id, id))
TxDeleteTrip ==
    /\ tx.pc = "expensesDeleted"
    /\ tx' = [tx EXCEPT !.pc = "tripDeleted"]
    /\ UNCHANGED <<trips, expenses>>
    /\ TxFrame

\* The callback has returned: commit.
TxCommit ==
    /\ tx.pc = "tripDeleted"
    /\ trips' = DeleteTripRow(trips, tx.id)
    /\ expenses' = expenses \ tx.deleted
    /\ tx' = [tx EXCEPT !.pc = "done", !.deleted = {}]
    /\ TxFrame

\* A statement of the transaction fails: rollback, the error is rethrown.
TxRollback ==
    /\ tx.pc \in {"selected", "expensesDeleted"}
    /\ tx' = [tx EXCEPT !.pc = "done", !.deleted = {}, !.outcome = "error"]
    /\ UNCHANGED <<trips, expenses>>
    /\ TxFrame

NextTx ==
    \/ \E n \in TripNames : createTrip(RowOwner, n)
    \/ \E n \in TripNames : createExpense(RowOwner, n, 0)
    \/ \E id \in TripIds : TxSelectTrip(id)
    \/ TxDeleteExpenses
    \/ TxDeleteTrip
    \/ TxCommit
    \/ TxRollback

SpecTx == Init /\ [][NextTx]_vars

\* C26 as stated: when a deleteTrip that ran together with createExpense
\* calls commits, its trip row is gone and no expense row has the deleted
\* trip's userId and name.
C26_ConcurrentCascadeAsStated ==
    [][(tx.pc = "tripDeleted" /\ tx'.pc = "done" /\ tx'.outcome = "ok") =>
          /\ \A t \in trips' : t.id # tx.id
          /\ \A e \in expenses' : ~SameTrip(e, tx.trip)]_vars

(***************************************************************************)
(* SupabaseStorageService.initialize run by the module instances against   *)
(* one storage service (SpecBucket).  A call the service does not carry    *)
(* out returns {data: null, error}; initialize looks at no error.          *)
(***************************************************************************)
HasBucket(B) == \E b \in B : b.name = bucketName

SvcFrame ==
    UNCHANGED <<trips, expenses, nextTripId, nextExpenseId, bucket, now, reqs, last, app,
                users, nextUserId, tx, viewer>>

\* const { data: buckets } = await listBuckets();
\* bucketExists = buckets?.some(bucket => bucket.name === this.bucketName)
ListBuckets(i, ok) ==
    /\ svc.inst[i].pc = "start"
    /\ svc' = [svc EXCEPT !.inst[i].pc = "listed",
                          !.inst[i].bucketExists = ok /\ HasBucket(svc.buckets)]
    /\ SvcFrame

\* storage.createBucket(name, {public: false}): a bucket of that name is
\* not created twice.
CreateBucketResult(B, ok) ==
    IF ok /\ ~HasBucket(B) THEN B \cup {[name |-> bucketName, public |-> FALSE]} ELSE B

\* if (!bucketExists) { await createBucket(...) } ; return this
CreateBucket(i, ok) ==
    /\ svc.inst[i].pc = "listed" /\ ~svc.inst[i].bucketExists
    /\ svc' = [svc EXCEPT !.buckets = CreateBucketResult(svc.buckets, ok),
                          !.inst[i].pc = "resolved",
                          !.inst[i].called = TRUE,
                          !.inst[i].created = CreateBucketResult(svc.buckets, ok) # svc.buckets]
    /\ SvcFrame

\* bucketExists: return this
ReturnThis(i) ==
    /\ svc.inst[i].pc = "listed" /\ svc.inst[i].bucketExists
    /\ svc' = [svc EXCEPT !.inst[i].pc = "resolved"]
    /\ SvcFrame

InitBucket ==
    /\ trips = {}
    /\ expenses = {}
    /\ nextTripId = 1
    /\ nextExpenseId = 1
    /\ bucket = {}
    /\ now = 0
    /\ reqs = [r \in Reqs |-> Idle]
    /\ last = NoCall
    /\ app = AppStart("server")
    /\ users = {}
    /\ nextUserId = 1
    /\ tx = NoTx
    /\ viewer = ViewerStart
    /\ \E present \in BOOLEAN : svc = ServiceStart(present)

NextBucket ==
    \/ \E i \in Instances, ok \in BOOLEAN : ListBuckets(i, ok)
    \/ \E i \in Instances, ok \in BOOLEAN : CreateBucket(i, ok)
    \/ \E i \in Instances : ReturnThis(i)

SpecBucket == InitBucket /\ [][NextBucket]_vars

\* C27 as stated: createBucket is called only by an initialisation whose
\* listing did not show the bucket, every bucket created is private, once an
\* initialisation has resolved the bucket exists, and there is never more
\* than one bucket of that name.
C27_BucketInitAsStated ==
    /\ \A i \in Instances : svc.inst[i].called => ~svc.inst[i].bucketExists
    /\ \A b \in svc.buckets : ~b.public
    /\ \A i \in Instances : svc.inst[i].pc = "resolved" => HasBucket(svc.buckets)
    /\ Cardinality({b \in svc.buckets : b.name = bucketName}) <= 1

(***************************************************************************)
(* The receipt viewer of the client (SpecViewer): the modal store's        *)
(* currentReceiptUrl is the effect's initialUrl; every change of it runs   *)
(* fetchSignedUrl, which for an expense id awaits getReceiptUrl.  A fetch  *)
(* in flight is the id asked for and the number of the selection that      *)
(* started it.  The effect has no cleanup: a fetch is never cancelled.     *)
(***************************************************************************)
MaxFetches == 3

Given(s) == [kind |-> "given", id |-> 0, given |-> s]
SignedFor(id) == [kind |-> "signed", id |-> id, given |-> <<>>]

\* What the store can hold: nothing, an expense id, an id followed by other
\* characters, a legacy path, a URL.
Selections == {<<>>, <<"1">>, <<"2">>, <<"1", "x">>, <<"/uploads/">>, <<"x">>}

\* receiptPath.startsWith("/uploads/")
isLegacyReceiptPath(s) == s # <<>> /\ Head(s) = "/uploads/"

ViewerFrame ==
    UNCHANGED <<trips, expenses, nextTripId, nextExpenseId, bucket, now, reqs, last, app,
                users, nextUserId, tx, svc>>

\* fetchSignedUrl up to its await: the state it sets at once.
FetchSignedUrlBegin(v, initialUrl) ==
    LET expenseId == ParseInt(initialUrl)
    IN  IF initialUrl = <<>>
        THEN [v EXCEPT !.currentReceiptUrl = NoUrlShown]
        ELSE IF isLegacyReceiptPath(initialUrl)
        THEN [v EXCEPT !.currentReceiptUrl = Given(initialUrl)]
        ELSE IF expenseId # NaN
        THEN [v EXCEPT !.loading = TRUE, !.error = FALSE,
                       !.fetches = @ \cup {[id |-> expenseId, seq |-> v.nextFetch]},
                       !.nextFetch = @ + 1]
        ELSE [v EXCEPT !.currentReceiptUrl = Given(initialUrl)]

\* The store's currentReceiptUrl changes: the effect runs.
Select(s) ==
    /\ s # viewer.initialUrl
    /\ viewer.nextFetch <= MaxFetches
    /\ viewer' = FetchSignedUrlBegin([viewer EXCEPT !.initialUrl = s], s)
    /\ ViewerFrame

\* getReceiptUrl resolves or rejects; then the finally.
FetchSettled(f, ok) ==
    /\ f \in viewer.fetches
    /\ viewer' = [viewer EXCEPT
                     !.fetches = @ \ {f},
                     !.currentReceiptUrl = IF ok THEN SignedFor(f.id) ELSE NoUrlShown,
                     !.error = ~ok,
                     !.loading = FALSE]
    /\ ViewerFrame

FetchIds == 1..2

NextViewer ==
    \/ \E s \in Selections : Select(s)
    \/ \E id \in FetchIds, n \in 1..MaxFetches, ok \in BOOLEAN :
          FetchSettled([id |-> id, seq |-> n], ok)

SpecViewer == Init /\ [][NextViewer]_vars

\* The fetch the most recent selection started is in flight.
LatestPending ==
    /\ ParseInt(viewer.initialUrl) # NaN /\ ~isLegacyReceiptPath(viewer.initialUrl)
    /\ \E f \in viewer.fetches : f.seq = viewer.nextFetch - 1

\* What the viewer shows for the selection once nothing is in flight.
ShownFor(s) ==
    IF s = <<>> THEN {NoUrlShown}
    ELSE IF isLegacyReceiptPath(s) \/ ParseInt(s) = NaN THEN {Given(s)}
    ELSE {SignedFor(ParseInt(s)), NoUrlShown}

\* C28 as stated: once no fetch is in flight the URL shown is the one of the
\* most recently selected receipt (none when its fetch failed), and the
\* loading indicator is on exactly while the fetch of the most recently
\* selected receipt is pending.
C28_LatestSelectionShownAsStated ==
    /\ viewer.fetches = {} => viewer.currentReceiptUrl \in ShownFor(viewer.initialUrl)
    /\ viewer.loading <=> LatestPending

====
